---- MODULE Spec2Model ----
(***************************************************************************)
(* A model of steam_download_monitor.py: the polling loop of main() and    *)
(* the functions it calls (find_active_download, dir_size, game_name,      *)
(* parse_kv, get_libraries, status).                                       *)
(*                                                                         *)
(* Conventions.                                                            *)
(*  - A name or an id is a sequence of one-character strings, so that      *)
(*    str.isdigit() and the f-string "AppID {appid}" are computed.         *)
(*  - Python's None is <<>> for appid/path (both None and "" are falsy in  *)
(*    `if not appid`) and the number None for last_size/last_time.         *)
(*  - Time is counted in units of 1e-6 s (the epsilon of line 118), so     *)
(*    max(1e-6, t - last_time) is Max(Epsilon, t - last_time) and a rate   *)
(*    in bytes/second is the rational num/den with                         *)
(*    num = bytes * UnitsPerSecond and den = elapsed units.                *)
(*  - A text is the sequence of its quote-free segments: <<s0,s1,...,sn>>  *)
(*    is s0 " s1 " ... " sn, each segment a sequence of characters.        *)
(***************************************************************************)
EXTENDS Integers, Sequences, FiniteSets, TLC

VARIABLES
  pc,         \* main(): the statement the loop is at
  tick,       \* main(): the iteration of `for _ in range(5)`
  appid,      \* main(): local appid
  path,       \* main(): local path
  size,       \* main(): local size
  t,          \* main(): local t
  speed,      \* main(): local speed
  last_size,  \* main(): local last_size
  last_time,  \* main(): local last_time
  out,        \* the lines printed during the current iteration
  log,        \* the statements executed during the current iteration, in order
  prev,       \* history: what the previous iteration found and measured
  fn,         \* which function a function-level specification applies
  arg,        \* the arguments (the inputs read from the file system)
  ret,        \* the function's result
  files,      \* dir_size: the files on disk now, name -> size
  dirs,       \* dir_size: the directories os.walk has still to list
  walk,       \* dir_size: the names os.walk listed and the generator has not reached
  cur,        \* dir_size: the file the generator holds, after f.exists() said True
  total       \* dir_size: the running sum

vars == <<pc, tick, appid, path, size, t, speed, last_size, last_time, out, log,
          prev, fn, arg, ret, files, dirs, walk, cur, total>>

mainVars == <<pc, tick, appid, path, size, t, speed, last_size, last_time, out, log, prev>>
fnVars == <<fn, arg, ret>>
dsVars == <<files, dirs, walk, cur, total>>

----------------------------------------------------------------------------
(* Bounds of the model *)

MaxMtime == 2
MaxSize == 2
MaxClock == 2
MaxEntries == 3
MaxSegs == 5
MaxPairs == 2
MaxFileSize == 2
MaxRateDen == 2
MaxRateSlack == 12

(* Program constants *)

Ticks == 5
Threshold == 50000
Epsilon == 1
UnitsPerSecond == 1000000
None == -1

Max(a, b) == IF a >= b THEN a ELSE b

----------------------------------------------------------------------------
(* Names *)

Digits == {"0", "1", "2", "3", "4", "5", "6", "7", "8", "9"}

\* str.isdigit(): non-empty and every character a digit
IsDigit(name) == Len(name) > 0 /\ \A i \in 1..Len(name) : name[i] \in Digits

Id10 == <<"1", "0">>
Id20 == <<"2", "0">>
NameAbc == <<"a", "b", "c">>
Name1a == <<"1", "a">>

Names == {Id10, Id20, NameAbc, Name1a}

\* f"AppID {appid}"
AppIdLabel(id) == <<"A", "p", "p", "I", "D", " ">> \o id

----------------------------------------------------------------------------
(* find_active_download *)

\* An entry of a downloading directory, as iterdir() yields it.
\* kind "gone": a directory when is_dir() looked, removed before stat().
Entry(n, k, m) == [name |-> n, kind |-> k, mtime |-> m]

IsDir(d) == d.kind \in {"dir", "gone"}

\* `not latest or mtime > latest[0]`
Newer(mtime, latest) == Len(latest) = 0 \/ mtime > latest[1]

\* The inner loop (lines 61-65) from entry i on.  raised: d.stat() threw.
RECURSIVE ScanEntries(_, _, _, _)
ScanEntries(lib, es, i, latest) ==
  IF i > Len(es) THEN [raised |-> FALSE, latest |-> latest]
  ELSE LET d == es[i] IN
    IF IsDir(d) /\ IsDigit(d.name)
    THEN IF d.kind = "gone"
         THEN [raised |-> TRUE, latest |-> latest]
         ELSE IF Newer(d.mtime, latest)
              THEN ScanEntries(lib, es, i + 1, <<d.mtime, d.name, <<lib, d.name>>>>)
              ELSE ScanEntries(lib, es, i + 1, latest)
    ELSE ScanEntries(lib, es, i + 1, latest)

\* The outer loop (lines 56-65) from library j on.  fs[lib] is the state of
\* lib/steamapps/downloading: "absent" (exists() False), "unreadable"
\* (exists() True and iterdir() throws: no permission, or not a directory),
\* or "listed" with the entries iterdir() yields, in its order.
RECURSIVE ScanLibs(_, _, _, _)
ScanLibs(libs, fs, j, latest) ==
  IF j > Len(libs) THEN [raised |-> FALSE, latest |-> latest]
  ELSE LET droot == fs[libs[j]] IN
    IF droot.state = "absent" THEN ScanLibs(libs, fs, j + 1, latest)
    ELSE IF droot.state = "unreadable" THEN [raised |-> TRUE, latest |-> latest]
    ELSE LET r == ScanEntries(libs[j], droot.entries, 1, latest) IN
         IF r.raised THEN r ELSE ScanLibs(libs, fs, j + 1, r.latest)

\* find_active_download(libs): latest[1:] if latest else (None, None)
FindActiveDownload(libs, fs) ==
  LET r == ScanLibs(libs, fs, 1, <<>>) IN
  IF r.raised THEN [raised |-> TRUE, appid |-> <<>>, path |-> <<>>]
  ELSE IF Len(r.latest) > 0
       THEN [raised |-> FALSE, appid |-> r.latest[2], path |-> r.latest[3]]
       ELSE [raised |-> FALSE, appid |-> <<>>, path |-> <<>>]

----------------------------------------------------------------------------
(* status and the rate of line 118 *)

StatusMut(s) == IF s.num >= Threshold * s.den THEN "DOWNLOADING" ELSE "PAUSED"

\* status(speed): speed > 50_000, on the rational num/den, den > 0
Status(s) == IF s.num > Threshold * s.den THEN "DOWNLOADING" ELSE "PAUSED"

\* speed = 0.0
ZeroSpeed == [num |-> 0, den |-> 1]

RateMut(sz, lsz, tm, ltm) ==
  [num |-> (sz - lsz) * UnitsPerSecond, den |-> Max(Epsilon, tm - ltm)]

\* max(0, size - last_size) / max(1e-6, t - last_time)
Rate(sz, lsz, tm, ltm) ==
  [num |-> Max(0, sz - lsz) * UnitsPerSecond, den |-> Max(Epsilon, tm - ltm)]

----------------------------------------------------------------------------
(* KV_RE and parse_kv *)

Whitespace == {" ", "\t", "\n", "\r"}

\* \s* matches the whole segment
IsSpace(seg) == \A i \in 1..Len(seg) : seg[i] \in Whitespace

\* KV_RE.findall(text), scanning from quote q on.  Quote q stands between
\* segs[q] and segs[q+1].  "([^"]+)" \s* "([^"]*)" matches at quote q when
\* quotes q..q+3 exist, the key segs[q+1] is not empty and segs[q+2] is
\* white space; the scan goes on after the match, or else at quote q+1.
RECURSIVE FindAllFrom(_, _)
FindAllFrom(segs, q) ==
  IF q + 3 > Len(segs) - 1 THEN <<>>
  ELSE IF Len(segs[q + 1]) > 0 /\ IsSpace(segs[q + 2])
       THEN <<<<segs[q + 1], segs[q + 3]>>>> \o FindAllFrom(segs, q + 4)
       ELSE FindAllFrom(segs, q + 1)

KvFindAll(segs) == FindAllFrom(segs, 1)

\* dict(pairs): a later pair replaces an earlier one with the same key
RECURSIVE DictOf(_)
DictOf(pairs) ==
  IF Len(pairs) = 0 THEN <<>>
  ELSE LET n == Len(pairs)
           d == DictOf(SubSeq(pairs, 1, n - 1))
           k == pairs[n][1]
       IN [x \in (DOMAIN d) \cup {k} |-> IF x = k THEN pairs[n][2] ELSE d[x]]

\* A file: state "missing", "unreadable" (read_text throws) or "text".
File(s, segs) == [state |-> s, segs |-> segs]

\* parse_kv(path)
ParseKv(f) == IF f.state # "text" THEN <<>> ELSE DictOf(KvFindAll(f.segs))

----------------------------------------------------------------------------
(* game_name *)

Exists(f) == f.state # "missing"

KeyName == <<"n", "a", "m", "e">>

\* dict.get(key, default)
Get(d, k, default) == IF k \in DOMAIN d THEN d[k] ELSE default

GameNameFromMut(id, libs, mfs, j) ==
  LET found == {i \in j..Len(libs) : Exists(mfs[libs[i]])
                                      /\ KeyName \in DOMAIN ParseKv(mfs[libs[i]])}
  IN IF found = {} THEN AppIdLabel(id)
     ELSE ParseKv(mfs[libs[CHOOSE i \in found : \A k \in found : i <= k]])[KeyName]

\* game_name(appid, libs), from library j on; mfs[lib] is the file
\* lib/steamapps/appmanifest_<appid>.acf
RECURSIVE GameNameFrom(_, _, _, _)
GameNameFrom(id, libs, mfs, j) ==
  IF j > Len(libs) THEN AppIdLabel(id)
  ELSE IF Exists(mfs[libs[j]])
       THEN Get(ParseKv(mfs[libs[j]]), KeyName, AppIdLabel(id))
       ELSE GameNameFrom(id, libs, mfs, j + 1)

GameName(id, libs, mfs) == GameNameFrom(id, libs, mfs, 1)

----------------------------------------------------------------------------
(* get_libraries *)

\* Path spellings.  PSteamDot spells PSteam, PLink is a link to PLib, nothing
\* is at PGone, and Path("") is ".", the working directory PCwd.
PSteam == <<"C", ":", "/", "S">>
PSteamDot == <<"C", ":", "/", "S", "/", ".">>
PLib == <<"D", ":", "/", "L">>
PLink == <<"D", ":", "/", "K">>
PGone == <<"E", ":", "/", "G">>
PCwd == <<"C", ":", "/", "W">>
NoDir == <<"?">>

\* The directory a path leads to (what Path.resolve() returns for a path that
\* exists), NoDir when nothing is there.
RealOf(p) ==
  CASE p = PSteam -> PSteam
    [] p = PSteamDot -> PSteam
    [] p = PLib -> PLib
    [] p = PLink -> PLib
    [] p = <<>> -> PCwd
    [] p = PCwd -> PCwd
    [] OTHER -> NoDir

\* Path.exists()
PathExists(p) == RealOf(p) # NoDir

\* Path.resolve()
Resolve(p) == RealOf(p)

\* lines 45-48: the values of all pairs that exist as paths, in order
RECURSIVE ExistingVals(_)
ExistingVals(pairs) ==
  IF Len(pairs) = 0 THEN <<>>
  ELSE LET p == pairs[1][2] IN
       (IF PathExists(p) THEN <<p>> ELSE <<>>) \o ExistingVals(Tail(pairs))

CanonicalSetMut(ps) == {ps[i] : i \in 1..Len(ps)}

\* {p.resolve() for p in libs}
CanonicalSet(ps) == {Resolve(ps[i]) : i \in 1..Len(ps)}

\* get_libraries(steam_root); vdf is steam_root/steamapps/libraryfolders.vdf.
\* raised: vdf.exists() and read_text() throws (line 45 is not guarded).
GetLibraries(root, vdf) ==
  IF ~Exists(vdf) THEN [raised |-> FALSE, libs |-> CanonicalSet(<<root>>)]
  ELSE IF vdf.state = "unreadable" THEN [raised |-> TRUE, libs |-> {}]
  ELSE [raised |-> FALSE,
        libs |-> CanonicalSet(<<root>> \o ExistingVals(KvFindAll(vdf.segs)))]

\* list(a set): the elements once each, in some order
Orderings(S) == {s \in [1..Cardinality(S) -> S] : \A i, j \in DOMAIN s : i # j => s[i] # s[j]}

----------------------------------------------------------------------------
(* The inputs: what the file system and the clock can hand to the program *)

Libs == {1, 2}

\* the list get_libraries returned to main() (line 101)
MainLibs == <<1, 2>>

Mtimes == 0..MaxMtime

\* a snapshot holds no "gone" entry: that one is a race with the client
SnapshotEntries ==
  {Entry(n, "file", 0) : n \in Names} \cup {Entry(n, "dir", m) : n \in Names, m \in Mtimes}

RacingEntries == SnapshotEntries \cup {Entry(n, "gone", 0) : n \in Names}

\* the listings of n entries, no name twice
Listings(E, n) ==
  {s \in [1..n -> E] : \A i, j \in 1..n : i # j => s[i].name # s[j].name}

Absent == [state |-> "absent", entries |-> <<>>]
Unreadable == [state |-> "unreadable", entries |-> <<>>]
Listed(es) == [state |-> "listed", entries |-> es]

Droots(E, n) ==
  {Listed(es) : es \in Listings(E, n)} \cup (IF n = 0 THEN {Absent, Unreadable} ELSE {})

\* the snapshots of at most n entries in all
Snapshots(n) ==
  UNION { UNION { {[l \in Libs |-> IF l = 1 THEN a ELSE b] :
                     a \in Droots(SnapshotEntries, i), b \in Droots(SnapshotEntries, k)} :
                  k \in 0..(n - i) } :
          i \in 0..n }

\* what main() may meet at line 107: n entries at most in a library (the loop
\* reads only the id and the path found, so one entry a library gives it
\* every outcome: nothing, either id in either library, an exception)
MainSnapshots(n) ==
  [Libs -> UNION {Droots(RacingEntries, i) : i \in 0..n}]

\* Sizes in bytes and clock readings in units of 1e-6 s, kept small enough for
\* bytes * UnitsPerSecond and Threshold * units to stay within 32 bits.  One
\* byte in one clock step is a rate of exactly Threshold bytes/second.
ClockStep == UnitsPerSecond \div Threshold
Sizes == 0..MaxSize
Clock == {k * ClockStep : k \in 0..MaxClock}

Missing == File("missing", <<>>)
Garbled == File("unreadable", <<>>)
Text(segs) == File("text", segs)

\* `"k" "v"` lines
RECURSIVE LinesText(_)
LinesText(pairs) ==
  IF Len(pairs) = 0 THEN <<<<>>>>
  ELSE <<<<>>, pairs[1][1], <<" ">>, pairs[1][2]>> \o
       (IF Len(pairs) = 1 THEN <<<<>>>> ELSE <<<<"\n">>>> \o Tail(LinesText(Tail(pairs))))

SeqsUpTo(S, n) == UNION {[1..k -> S] : k \in 0..n}

\* the texts: every text of at most MaxSegs segments, and the well-formed
\* texts of at most MaxPairs pairs
Texts(atoms, keys, vals) ==
  {Text(s) : s \in SeqsUpTo(atoms, MaxSegs) \ {<<>>}} \cup
  {Text(LinesText(ps)) : ps \in SeqsUpTo(keys \X vals, MaxPairs)}

PlainManifest == Text(LinesText(<<<<<<"n", "a", "m", "e">>, <<"G">>>>>>))

\* the manifests main() may meet at line 121
MainManifests ==
  [Libs -> {Missing, Garbled, PlainManifest}]

----------------------------------------------------------------------------
(* main(): the loop of lines 105-127, a statement at a time *)

NextStepMut(p, active) ==
  CASE p = "now" -> "find"
    [] p = "find" -> IF active THEN "time" ELSE "idle"
    [] p = "idle" -> "reset"
    [] p = "reset" -> "sleep"
    [] p = "time" -> "size"
    [] p = "size" -> "rate"
    [] p = "rate" -> "print"
    [] p = "print" -> "store"
    [] p = "store" -> "sleep"

\* the statement that follows statement p; active: the test of line 109 failed
NextStep(p, active) ==
  CASE p = "now" -> "find"
    [] p = "find" -> IF active THEN "size" ELSE "idle"
    [] p = "idle" -> "reset"
    [] p = "reset" -> "sleep"
    [] p = "size" -> "time"
    [] p = "time" -> "rate"
    [] p = "rate" -> "print"
    [] p = "print" -> "store"
    [] p = "store" -> "sleep"

\* sampled: some earlier iteration stored a sample (line 125)
NoSample == [appid |-> <<>>, size |-> None, t |-> None, sampled |-> FALSE]

IdleFn == fn = "" /\ arg = <<>> /\ ret = <<>>
IdleDs == files = <<>> /\ dirs = <<>> /\ walk = <<>> /\ cur = "" /\ total = 0

\* line 103
Init ==
  /\ pc = "now" /\ tick = 1
  /\ appid = <<>> /\ path = <<>> /\ size = None /\ t = None /\ speed = ZeroSpeed
  /\ last_size = None /\ last_time = None
  /\ out = <<>> /\ log = <<>> /\ prev = NoSample
  /\ IdleFn /\ IdleDs

\* line 106
Now ==
  /\ pc = "now"
  /\ pc' = NextStep("now", FALSE)
  /\ log' = Append(log, "now")
  /\ UNCHANGED <<tick, appid, path, size, t, speed, last_size, last_time, out, prev>>
  /\ UNCHANGED <<fnVars, dsVars>>

\* line 107; an exception leaves main()
Find ==
  /\ pc = "find"
  /\ \E fs \in MainSnapshots(1) :
       LET r == FindActiveDownload(MainLibs, fs) IN
       IF r.raised
       THEN pc' = "crashed" /\ UNCHANGED <<appid, path>>
       ELSE /\ appid' = r.appid /\ path' = r.path
            /\ pc' = NextStep("find", Len(r.appid) > 0)
  /\ log' = Append(log, "find")
  /\ UNCHANGED <<tick, size, t, speed, last_size, last_time, out, prev>>
  /\ UNCHANGED <<fnVars, dsVars>>

\* line 110
PrintIdle ==
  /\ pc = "idle"
  /\ out' = Append(out, [kind |-> "none"])
  /\ pc' = NextStep("idle", FALSE)
  /\ log' = Append(log, "print")
  /\ UNCHANGED <<tick, appid, path, size, t, speed, last_size, last_time, prev>>
  /\ UNCHANGED <<fnVars, dsVars>>

ResetSampleMut == UNCHANGED <<last_size, last_time>>

\* line 111
ResetSample == last_size' = None /\ last_time' = None

Reset ==
  /\ pc = "reset"
  /\ ResetSample
  /\ pc' = NextStep("reset", FALSE)
  /\ log' = Append(log, "store")
  /\ UNCHANGED <<tick, appid, path, size, t, speed, out, prev>>
  /\ UNCHANGED <<fnVars, dsVars>>

\* line 113: dir_size(path) returns the bytes under path, or a file vanishes
\* between f.exists() and f.stat() and the exception leaves main()
MeasureSize ==
  /\ pc = "size"
  /\ \/ \E s \in Sizes : size' = s /\ pc' = NextStep("size", TRUE)
     \/ pc' = "crashed" /\ UNCHANGED size
  /\ log' = Append(log, "size")
  /\ UNCHANGED <<tick, appid, path, t, speed, last_size, last_time, out, prev>>
  /\ UNCHANGED <<fnVars, dsVars>>

\* line 114: the clock may stand still or step back
ReadClock ==
  /\ pc = "time"
  /\ \E c \in Clock : t' = c
  /\ pc' = NextStep("time", TRUE)
  /\ log' = Append(log, "time")
  /\ UNCHANGED <<tick, appid, path, size, speed, last_size, last_time, out, prev>>
  /\ UNCHANGED <<fnVars, dsVars>>

\* lines 116-118
ComputeSpeed ==
  /\ pc = "rate"
  /\ speed' = IF last_size # None THEN Rate(size, last_size, t, last_time) ELSE ZeroSpeed
  /\ pc' = NextStep("rate", TRUE)
  /\ log' = Append(log, "rate")
  /\ UNCHANGED <<tick, appid, path, size, t, last_size, last_time, out, prev>>
  /\ UNCHANGED <<fnVars, dsVars>>

\* lines 120-123
PrintItem ==
  /\ pc = "print"
  /\ \E mfs \in MainManifests :
       out' = Append(out, [kind |-> "item", name |-> GameName(appid, MainLibs, mfs),
                           status |-> Status(speed), speed |-> speed])
  /\ pc' = NextStep("print", TRUE)
  /\ log' = Append(log, "print")
  /\ UNCHANGED <<tick, appid, path, size, t, speed, last_size, last_time, prev>>
  /\ UNCHANGED <<fnVars, dsVars>>

\* line 125
Store ==
  /\ pc = "store"
  /\ last_size' = size /\ last_time' = t
  /\ pc' = NextStep("store", TRUE)
  /\ log' = Append(log, "store")
  /\ UNCHANGED <<tick, appid, path, size, t, speed, out, prev>>
  /\ UNCHANGED <<fnVars, dsVars>>

\* line 127 and the loop's step; the iteration's locals are dead from here on
Sleep ==
  /\ pc = "sleep"
  /\ prev' = [appid |-> appid, size |-> size, t |-> t,
              sampled |-> prev.sampled \/ Len(appid) > 0]
  /\ tick' = tick + 1
  /\ pc' = IF tick + 1 > Ticks THEN "done" ELSE "now"
  /\ appid' = <<>> /\ path' = <<>> /\ size' = None /\ t' = None /\ speed' = ZeroSpeed
  /\ out' = <<>> /\ log' = <<>>
  /\ UNCHANGED <<last_size, last_time>>
  /\ UNCHANGED <<fnVars, dsVars>>

Next ==
  \/ Now \/ Find \/ PrintIdle \/ Reset \/ MeasureSize \/ ReadClock
  \/ ComputeSpeed \/ PrintItem \/ Store \/ Sleep

Spec == Init /\ [][Next]_vars

----------------------------------------------------------------------------
(* Properties of main() *)

Reported == Len(out) = 1 /\ out[1].kind = "item"

\* C1: when two consecutive iterations find different ids, the second one
\* reports the rate zero and PAUSED.
C1_ItemSwitchReportsZero ==
  (Reported /\ Len(prev.appid) > 0 /\ appid # prev.appid)
    => (out[1].speed.num = 0 /\ out[1].status = "PAUSED")

\* C2: an iteration that finds nothing prints "No active downloads" and drops
\* the stored sample, and the iteration after it, when it finds an item,
\* reports the rate zero and PAUSED.
C2_NoActiveReset ==
  /\ (pc = "sleep" /\ Len(appid) = 0)
       => (out = <<[kind |-> "none"]>> /\ last_size = None /\ last_time = None)
  /\ (Reported /\ Len(prev.appid) = 0)
       => (out[1].speed.num = 0 /\ out[1].status = "PAUSED")

\* an item found right after an iteration that found nothing, with a sample
\* stored before that
C2_Witness ==
  Reported /\ Len(prev.appid) = 0 /\ prev.sampled /\ size > 0 /\ pc = "sleep"

\* C3: every iteration prints exactly one line and no failure leaves main().
C3_OneLinePerTick ==
  /\ pc # "crashed"
  /\ Len(out) <= 1
  /\ pc = "sleep" => Len(out) = 1

\* C4: when the id is the one of the iteration before, the reported rate is
\* max(0, size - prev.size) / max(epsilon, t - prev.t) of the two iterations'
\* measurements: never negative, zero when the size did not grow, defined for
\* an elapsed time of zero or less; and the iteration's sample is the one stored.
C4_RateOfConsecutiveSamples ==
  /\ (Reported /\ Len(appid) > 0 /\ appid = prev.appid) =>
       LET r == out[1].speed IN
       /\ r.den > 0 /\ r.num >= 0
       /\ r.num * Max(Epsilon, t - prev.t)
            = Max(0, size - prev.size) * UnitsPerSecond * r.den
       /\ size <= prev.size => r.num = 0
  /\ (pc = "sleep" /\ Len(appid) > 0) => (last_size = size /\ last_time = t)

\* the same id, a clock that stepped back, a size that grew
C4_Witness ==
  /\ Reported /\ Len(appid) > 0 /\ appid = prev.appid
  /\ t < prev.t /\ size > prev.size /\ out[1].status = "DOWNLOADING"

Pos(e) == IF \E i \in 1..Len(log) : log[i] = e
          THEN CHOOSE i \in 1..Len(log) : log[i] = e ELSE 0

Before(a, b) == Pos(b) > 0 => (0 < Pos(a) /\ Pos(a) < Pos(b))

\* C9: in an iteration that finds an item the size is measured after the item
\* is found, the clock is read after the size is measured, and the line is
\* printed before the sample is stored.
C9_OrderWithinTick ==
  /\ Before("find", "size")
  /\ Before("size", "time")
  /\ Before("time", "rate")
  /\ Before("print", "store")
  /\ (pc = "sleep" /\ Len(appid) > 0)
       => log = <<"now", "find", "size", "time", "rate", "print", "store">>

C9_Witness == pc = "sleep" /\ Len(appid) > 0 /\ Len(log) = 7 /\ tick = 2

----------------------------------------------------------------------------
(* The functions, each applied to the inputs it can be given *)

IdleMain ==
  /\ pc = "off" /\ tick = 0
  /\ appid = <<>> /\ path = <<>> /\ size = None /\ t = None /\ speed = ZeroSpeed
  /\ last_size = None /\ last_time = None
  /\ out = <<>> /\ log = <<>> /\ prev = NoSample

Called(f) == fn = f /\ Len(ret) = 0
Returned(f) == fn = f /\ Len(ret) = 1

(* status *)

\* rates num/den about the threshold, and the rate zero
Rates ==
  {[num |-> n, den |-> d] :
     n \in {0} \cup UNION {{Threshold * k + e : e \in (0 - MaxRateSlack)..MaxRateSlack} :
                            k \in 1..MaxRateDen},
     d \in 1..MaxRateDen}

InitStatus == IdleMain /\ IdleDs /\ fn = "status" /\ arg \in Rates /\ ret = <<>>

ApplyStatus ==
  /\ Called("status")
  /\ ret' = <<Status(arg)>>
  /\ UNCHANGED <<fn, arg, mainVars, dsVars>>

SpecStatus == InitStatus /\ [][ApplyStatus]_vars

\* C5: status(rate) is DOWNLOADING exactly when rate > 50,000 and PAUSED
\* otherwise; 50,000 and 0 give PAUSED and 50,001 gives DOWNLOADING.
C5_StatusThreshold ==
  Returned("status") =>
    /\ ret[1] \in {"DOWNLOADING", "PAUSED"}
    /\ ret[1] = "DOWNLOADING" <=> arg.num > Threshold * arg.den
    /\ (arg.den = 1 /\ arg.num = Threshold) => ret[1] = "PAUSED"
    /\ (arg.den = 1 /\ arg.num = Threshold + 1) => ret[1] = "DOWNLOADING"
    /\ arg.num = 0 => ret[1] = "PAUSED"

\* the rate of exactly 50,000 bytes/second
C5_Witness ==
  Returned("status") /\ arg.den = 1 /\ arg.num = Threshold /\ ret[1] = "PAUSED"

(* find_active_download *)

LibLists == {<<>>, <<1>>, <<2>>, <<1, 2>>, <<2, 1>>}

InitFind ==
  /\ IdleMain /\ IdleDs /\ fn = "find_active_download" /\ ret = <<>>
  /\ arg \in {[libs |-> l, fs |-> f] : l \in LibLists, f \in Snapshots(MaxEntries)}

ApplyFind ==
  /\ Called("find_active_download")
  /\ ret' = <<FindActiveDownload(arg.libs, arg.fs)>>
  /\ UNCHANGED <<fn, arg, mainVars, dsVars>>

SpecFind == InitFind /\ [][ApplyFind]_vars

\* the directories with a digits-only name in the downloading areas of the
\* libraries given: <<library, index in the listing>>
Candidates(libs, fs) ==
  {c \in {libs[j] : j \in 1..Len(libs)} \X (1..MaxEntries + 1) :
     /\ fs[c[1]].state = "listed"
     /\ c[2] <= Len(fs[c[1]].entries)
     /\ fs[c[1]].entries[c[2]].kind = "dir"
     /\ \A i \in 1..Len(fs[c[1]].entries[c[2]].name) :
          fs[c[1]].entries[c[2]].name[i] \in Digits}

SelectsLatest(r, libs, fs) ==
  LET cs == Candidates(libs, fs) IN
  /\ (Len(r.appid) = 0) <=> (cs = {})
  /\ Len(r.appid) > 0 =>
       \E c \in cs :
         LET d == fs[c[1]].entries[c[2]] IN
         /\ r.appid = d.name /\ r.path = <<c[1], d.name>>
         /\ \A o \in cs : fs[o[1]].entries[o[2]].mtime <= d.mtime

\* C6: for every list of libraries and every snapshot, find_active_download
\* returns, and returns a digits-only directory of the greatest modification
\* time among all those in the libraries' downloading areas, or nothing
\* exactly when there is none.
C6_ReturnsLatestDigitsDir ==
  Returned("find_active_download") =>
    (~ret[1].raised /\ SelectsLatest(ret[1], arg.libs, arg.fs))

\* What does hold: when it returns, it returns the latest such directory,
\* and it fails only when a downloading area of the list cannot be read.
FindActiveSelectsLatestWhenItReturns ==
  Returned("find_active_download") =>
    /\ ~ret[1].raised => SelectsLatest(ret[1], arg.libs, arg.fs)
    /\ ret[1].raised =>
         \E j \in 1..Len(arg.libs) : arg.fs[arg.libs[j]].state = "unreadable"

(* get_libraries *)

Blank == <<" ">>
PathAtoms == {<<>>, Blank, PSteam, PSteamDot, PLib, PLink, PGone}
KeyPath == <<"p">>
Roots == {PSteam, PSteamDot, PLink}

Registries(any) ==
  {Missing, Garbled} \cup Texts({<<>>, Blank, PSteam, PLink, PGone}, {KeyPath}, PathAtoms)

InitLibs ==
  /\ IdleMain /\ IdleDs /\ fn = "get_libraries" /\ ret = <<>>
  /\ arg \in {[root |-> r, vdf |-> v] : r \in Roots, v \in Registries(TRUE)}

ApplyLibs ==
  /\ Called("get_libraries")
  /\ LET r == GetLibraries(arg.root, arg.vdf) IN
     \E l \in Orderings(r.libs) : ret' = <<[raised |-> r.raised, libs |-> l]>>
  /\ UNCHANGED <<fn, arg, mainVars, dsVars>>

SpecLibs == InitLibs /\ [][ApplyLibs]_vars

\* the values that follow a key in the registry text
RegistryValues(vdf) ==
  IF vdf.state # "text" THEN {}
  ELSE {KvFindAll(vdf.segs)[i][2] : i \in 1..Len(KvFindAll(vdf.segs))}

\* C7: the list get_libraries returns holds no two entries for the same
\* directory, holds the resolved install root, and apart from it only resolved
\* registry values that exist as paths; without a registry file it is the root
\* alone.  (get_libraries does not return when the registry file is there and
\* cannot be read.)
C7_LibrariesCanonicalAndDistinct ==
  Returned("get_libraries") =>
    LET l == ret[1].libs IN
    /\ ret[1].raised <=> arg.vdf.state = "unreadable"
    /\ ~ret[1].raised =>
         /\ \A i, j \in 1..Len(l) : i # j => RealOf(l[i]) # RealOf(l[j])
         /\ \A i \in 1..Len(l) : l[i] # NoDir /\ RealOf(l[i]) = l[i]
         /\ \E i \in 1..Len(l) : l[i] = RealOf(arg.root)
         /\ \A i \in 1..Len(l) :
              \/ l[i] = RealOf(arg.root)
              \/ \E v \in RegistryValues(arg.vdf) : RealOf(v) # NoDir /\ l[i] = RealOf(v)
         /\ \A v \in RegistryValues(arg.vdf) :
              RealOf(v) # NoDir => \E i \in 1..Len(l) : l[i] = RealOf(v)
         /\ arg.vdf.state = "missing" => l = <<RealOf(arg.root)>>

\* the root under one spelling, the registry naming it under another and a
\* second library through a link
C7_Witness ==
  /\ Returned("get_libraries") /\ ~ret[1].raised
  /\ arg.root = PSteamDot
  /\ {PSteam, PLink} \subseteq RegistryValues(arg.vdf)
  /\ Len(ret[1].libs) = 2

(* game_name *)

ValX == <<"X">>
ValY == <<"Y">>

Manifests(any) == Texts({<<>>, Blank, KeyName, ValX}, {KeyName, ValX}, {ValX, ValY})

PlainManifests == {Missing, Garbled, PlainManifest}

\* one library's manifest is any of Manifests, the other's a plain one
InitName ==
  /\ IdleMain /\ IdleDs /\ fn = "game_name" /\ ret = <<>>
  /\ arg \in {[appid |-> a, libs |-> l, mfs |-> [x \in Libs |-> IF x = k THEN m ELSE o]] :
               a \in {Id10}, l \in {<<1, 2>>, <<2, 1>>}, k \in Libs,
               m \in Manifests(TRUE) \cup {Missing, Garbled}, o \in PlainManifests}

ApplyName ==
  /\ Called("game_name")
  /\ ret' = <<GameName(arg.appid, arg.libs, arg.mfs)>>
  /\ UNCHANGED <<fn, arg, mainVars, dsVars>>

SpecName == InitName /\ [][ApplyName]_vars

\* the value of the last pair of the text whose key is name, <<>> wrapped;
\* {} when there is none
NameValues(f) ==
  IF f.state # "text" THEN {}
  ELSE LET ps == KvFindAll(f.segs)
           ks == {i \in 1..Len(ps) : ps[i][1] = KeyName}
       IN {ps[i][2] : i \in {i \in ks : \A k \in ks : k <= i}}

\* C10: game_name decides on the first library of the list that has a manifest
\* file: the manifest's name value, or "AppID <id>" when it has none or cannot
\* be read, whatever later libraries hold; "AppID <id>" when no library has a
\* manifest.
C10_FirstManifestDecides ==
  Returned("game_name") =>
    LET have == {j \in 1..Len(arg.libs) : arg.mfs[arg.libs[j]].state # "missing"} IN
    IF have = {} THEN ret[1] = AppIdLabel(arg.appid)
    ELSE LET j == CHOOSE j \in have : \A k \in have : j <= k
             vs == NameValues(arg.mfs[arg.libs[j]])
         IN IF vs = {} THEN ret[1] = AppIdLabel(arg.appid) ELSE ret[1] \in vs

\* the first library's manifest has no name and the second's has one
C10_Witness ==
  /\ Returned("game_name")
  /\ arg.mfs[arg.libs[1]].state = "text" /\ NameValues(arg.mfs[arg.libs[1]]) = {}
  /\ NameValues(arg.mfs[arg.libs[2]]) # {}
  /\ ret[1] = AppIdLabel(arg.appid)

----------------------------------------------------------------------------
(* dir_size, a step at a time, while the client writes and removes files *)

\* The tree under path: files a and b in it, file c in its subdirectory s.
TopDir == "."
SubDir == "s"
AllFiles == {"a", "b", "c"}
DirOf(f) == IF f = "c" THEN SubDir ELSE TopDir

Present(fs, f) == f \in DOMAIN fs

InitDirSize ==
  /\ IdleMain /\ fn = "dir_size" /\ arg = <<>> /\ ret = <<>>
  /\ \E S \in SUBSET AllFiles : files \in [S -> 1..MaxFileSize]
  /\ dirs = <<TopDir>> /\ walk = <<>> /\ cur = "" /\ total = 0

\* os.walk lists the next directory: the files in it now, and its
\* subdirectories to come
WalkDir ==
  /\ Called("dir_size") /\ Len(walk) = 0 /\ cur = "" /\ Len(dirs) > 0
  /\ \E l \in Orderings({f \in DOMAIN files : DirOf(f) = Head(dirs)}) : walk' = l
  /\ dirs' = Tail(dirs) \o (IF Head(dirs) = TopDir THEN <<SubDir>> ELSE <<>>)
  /\ UNCHANGED <<files, cur, total, fnVars, mainVars>>

\* `if f.exists()` for the next file listed
CheckExists ==
  /\ Called("dir_size") /\ Len(walk) > 0 /\ cur = ""
  /\ cur' = IF Present(files, Head(walk)) THEN Head(walk) ELSE ""
  /\ walk' = Tail(walk)
  /\ UNCHANGED <<files, dirs, total, fnVars, mainVars>>

\* f.stat().st_size for the file that passed the test; FileNotFoundError
\* when it is no longer there, which nothing catches
StatSize ==
  /\ Called("dir_size") /\ cur # ""
  /\ IF Present(files, cur)
     THEN total' = total + files[cur] /\ cur' = "" /\ UNCHANGED <<fnVars>>
     ELSE /\ ret' = <<[raised |-> TRUE, size |-> None]>>
          /\ UNCHANGED <<total, cur, fn, arg>>
  /\ UNCHANGED <<files, dirs, walk, mainVars>>

\* sum(...) is done
ReturnSize ==
  /\ Called("dir_size") /\ Len(walk) = 0 /\ cur = "" /\ Len(dirs) = 0
  /\ ret' = <<[raised |-> FALSE, size |-> total]>>
  /\ UNCHANGED <<fn, arg, files, dirs, walk, cur, total, mainVars>>

\* the client removes a file
ClientRemove ==
  /\ Called("dir_size")
  /\ \E f \in DOMAIN files : files' = [x \in (DOMAIN files) \ {f} |-> files[x]]
  /\ UNCHANGED <<dirs, walk, cur, total, fnVars, mainVars>>

\* the client writes to a file
ClientWrite ==
  /\ Called("dir_size")
  /\ \E f \in DOMAIN files :
       /\ files[f] < MaxFileSize
       /\ files' = [files EXCEPT ![f] = @ + 1]
  /\ UNCHANGED <<dirs, walk, cur, total, fnVars, mainVars>>

NextDirSize ==
  WalkDir \/ CheckExists \/ StatSize \/ ReturnSize \/ ClientRemove \/ ClientWrite

SpecDirSize == InitDirSize /\ [][NextDirSize]_vars

\* C8: whenever the client removes files while dir_size runs, dir_size
\* returns a total that is not negative; it never fails.
C8_DirSizeNeverFails ==
  Returned("dir_size") => (~ret[1].raised /\ ret[1].size >= 0)

====
